---- MODULE Spec2Model ----
(***************************************************************************)
(* Model of src/src/main.rs: the toy confidential-transaction demo built   *)
(* on Pedersen-style commitments C = v*G + r*H (mod p) over Rust i64.      *)
(*                                                                         *)
(* TLC's integers are 32 bits wide, the program's are 64, and the modulus  *)
(* is 2^61 - 1.  Every program integer is therefore a Word: five 16-bit    *)
(* limbs, least significant first, in two's complement (80 bits).  An i64  *)
(* is the Word that is its sign extension.  The 16 spare bits hold the     *)
(* exact result of one addition or one multiplication by G, H or 2 of i64  *)
(* operands, so that an overflow of i64 is seen (Fits64) and then either   *)
(* wraps (Wrap64: release profile) or panics (debug profile).              *)
(***************************************************************************)
EXTENDS Integers, Sequences, FiniteSets, TLC

(***************************************************************************)
(* Word arithmetic                                                         *)
(***************************************************************************)
Base == 2^16
HalfBase == 2^15

Zero == <<0, 0, 0, 0, 0>>
One == <<1, 0, 0, 0, 0>>

\* a + b + cin modulo 2^80
AddCarry(a, b, cin) ==
  LET s1 == a[1] + b[1] + cin
      s2 == a[2] + b[2] + (s1 \div Base)
      s3 == a[3] + b[3] + (s2 \div Base)
      s4 == a[4] + b[4] + (s3 \div Base)
      s5 == a[5] + b[5] + (s4 \div Base)
  IN  <<s1 % Base, s2 % Base, s3 % Base, s4 % Base, s5 % Base>>

Add(a, b) == AddCarry(a, b, 0)

Complement(a) ==
  <<(Base - 1) - a[1], (Base - 1) - a[2], (Base - 1) - a[3],
    (Base - 1) - a[4], (Base - 1) - a[5]>>

Neg(a) == AddCarry(Complement(a), Zero, 1)

Sub(a, b) == AddCarry(a, Complement(b), 1)

\* a * k modulo 2^80, for a small natural k
MulSmall(a, k) ==
  LET s1 == a[1] * k
      s2 == a[2] * k + (s1 \div Base)
      s3 == a[3] * k + (s2 \div Base)
      s4 == a[4] * k + (s3 \div Base)
      s5 == a[5] * k + (s4 \div Base)
  IN  <<s1 % Base, s2 % Base, s3 % Base, s4 % Base, s5 % Base>>

IsNeg(a) == a[5] >= HalfBase

\* signed comparison of two Words whose difference fits in 80 bits
Less(a, b) == IsNeg(Sub(a, b))
LessEq(a, b) == ~Less(b, a)

\* the Word of a TLC integer
FromInt(n) ==
  LET m == IF n < 0 THEN -n ELSE n
      w == <<m % Base, m \div Base, 0, 0, 0>>
  IN  IF n < 0 THEN Neg(w) ELSE w

\* does the Word lie in the range of i64, [-2^63, 2^63) ?
Fits64(a) ==
  \/ a[5] = 0 /\ a[4] < HalfBase
  \/ a[5] = Base - 1 /\ a[4] >= HalfBase

\* the i64 a wrapping operation leaves: the low 64 bits, sign extended
Wrap64(a) ==
  <<a[1], a[2], a[3], a[4], IF a[4] >= HalfBase THEN Base - 1 ELSE 0>>

(***************************************************************************)
(* Public parameters (main.rs:11-13)                                       *)
(***************************************************************************)
\* const MODULUS: i64 = 2_i64.pow(61) - 1
MODULUS == Sub(<<0, 0, 0, 2^13, 0>>, One)
G == 3
H == 7

\* x % MODULUS for 0 <= x < 2^79: 2^61 = 1 (mod MODULUS), so the bits from
\* 61 up are added to the low 61 bits, and one subtraction finishes
RemNat(x) ==
  LET hi == (x[4] \div 2^13) + x[5] * 8
      lo == <<x[1], x[2], x[3], x[4] % 2^13, 0>>
      s  == Add(lo, <<hi % Base, hi \div Base, 0, 0, 0>>)
  IN  IF LessEq(MODULUS, s) THEN Sub(s, MODULUS) ELSE s

\* Rust's x % MODULUS on i64: the remainder of truncated division, which
\* carries the sign of x
Rem(x) == IF IsNeg(x) THEN Neg(RemNat(Neg(x))) ELSE RemNat(x)

\* Reduce without the "+ MODULUS" step: the bare Rust remainder
Reduce_truncated(term) == Rem(term)

\* ((term % MODULUS) + MODULUS) % MODULUS  (main.rs:21, 107, 167); the
\* addition cannot leave i64: |term % MODULUS| < 2^61
Reduce(term) == Rem(Add(Rem(term), MODULUS))

(***************************************************************************)
(* pedersen_commit (main.rs:19-22)                                         *)
(***************************************************************************)
\* let term = value * G + blinding * H, as the wrapping operations of a
\* build without overflow checks compute it
CommitTerm(value, blinding) ==
  Wrap64(Add(Wrap64(MulSmall(value, G)), Wrap64(MulSmall(blinding, H))))

\* one of the three operations of line 20 leaves i64: a build with overflow
\* checks panics there, a build without them wraps
CommitOverflows(value, blinding) ==
  \/ ~Fits64(MulSmall(value, G))
  \/ ~Fits64(MulSmall(blinding, H))
  \/ ~Fits64(Add(Wrap64(MulSmall(value, G)), Wrap64(MulSmall(blinding, H))))

\* pedersen_commit without the reduction of line 21
pedersen_commit_unreduced(value, blinding) == CommitTerm(value, blinding)

pedersen_commit(value, blinding) == Reduce(CommitTerm(value, blinding))

(***************************************************************************)
(* toy_range_proof_create / toy_range_proof_verify (main.rs:35-44)         *)
(***************************************************************************)
\* the encoding without the factor 2
ProofEncoding_unscaled(commitment, bit) == Wrap64(Add(commitment, bit))

\* commitment * 2 + bit in i64
ProofEncoding(commitment, bit) ==
  Wrap64(Add(Wrap64(MulSmall(commitment, 2)), bit))

ProofOverflows(commitment, bit) ==
  \/ ~Fits64(MulSmall(commitment, 2))
  \/ ~Fits64(Add(Wrap64(MulSmall(commitment, 2)), bit))

\* the validity bit with value > 0 for value >= 0
valid_bit_strict(value) == IF ~IsNeg(value) /\ value # Zero THEN One ELSE Zero

valid_bit(value) == IF ~IsNeg(value) THEN One ELSE Zero

toy_range_proof_create(value, commitment) ==
  ProofEncoding(commitment, valid_bit(value))

toy_range_proof_verify(commitment, proof) ==
  proof = ProofEncoding(commitment, One)

(***************************************************************************)
(* The transaction run of main (main.rs:61-134, 227-233)                   *)
(*                                                                         *)
(* main takes the six secrets of a transaction (three values, three        *)
(* blindings) as literals and runs commit, prove, balance check, range     *)
(* proof check and the final verdict on them; lines 155-181 repeat the     *)
(* commit, balance and proof steps on a second set of literals.  The       *)
(* secrets are the caller's choice, so the run is modelled for every       *)
(* transaction of Transactions, which holds both sets of literals.         *)
(***************************************************************************)
VARIABLES
  overflow_checks,      \* the build's profile: TRUE panics on i64 overflow
  pc,                   \* position of the run in main
  value_input, r_input, value_to_bob, r_bob, value_change, r_change,
  c_input, c_bob, c_change,
  pi_input, pi_bob, pi_change,
  sum_outputs, inputs_match_outputs,
  rp_input, rp_bob, rp_change,
  verdict,
  \* a proof made for one commitment and presented with another
  tpc, t_value, t_made_for, t_shown_with, t_proof, t_accepted

secrets == <<value_input, r_input, value_to_bob, r_bob, value_change, r_change>>
prover == <<c_input, c_bob, c_change, pi_input, pi_bob, pi_change>>
verifier == <<sum_outputs, inputs_match_outputs, rp_input, rp_bob, rp_change, verdict>>
transfer == <<tpc, t_value, t_made_for, t_shown_with, t_proof, t_accepted>>
vars == <<overflow_checks, pc, secrets, prover, verifier, transfer>>

MaxValue == 1
MaxBlinding == 1
MaxOffset == 2

\* the literals of main.rs:61-80 and of main.rs:155-161
HonestTx ==
  [vi |-> FromInt(10), ri |-> FromInt(12345), vb |-> FromInt(5),
   rb |-> FromInt(11111), vc |-> FromInt(5), rc |-> FromInt(1234)]
AttackTx ==
  [vi |-> FromInt(10), ri |-> <<34463, 1, 0, 0, 0>>, vb |-> FromInt(15),
   rb |-> FromInt(11111), vc |-> FromInt(-5), rc |-> <<23352, 1, 0, 0, 0>>]

SmallValues == {FromInt(n) : n \in (0 - MaxValue)..MaxValue}
SmallBlindings == {FromInt(n) : n \in 0..MaxBlinding}

\* values and blindings at the far end of the field: |value| < MODULUS and
\* 0 <= blinding < MODULUS
MaxScalar == Sub(MODULUS, One)
HalfScalar == <<Base - 1, Base - 1, Base - 1, 2^12 - 1, 0>>
\* (6 * MODULUS + 8) / 7 = 1976436865040309102
SeventhScalar == <<56174, 28086, 46811, 7021, 0>>
\* i64::MIN
MinI64 == <<0, 0, 0, HalfBase, Base - 1>>
EdgeValues == {Zero, One, FromInt(-1), MaxScalar, MinI64}
EdgeBlindings == {Zero, HalfScalar, SeventhScalar, MaxScalar}

TxOver(values, blindings) ==
  [vi : values, ri : blindings, vb : values, rb : blindings,
   vc : values, rc : blindings]

Transactions ==
  {HonestTx, AttackTx} \cup TxOver(SmallValues, SmallBlindings)
                       \cup TxOver(EdgeValues, EdgeBlindings)

InitRun ==
  /\ c_input = Zero /\ c_bob = Zero /\ c_change = Zero
  /\ pi_input = Zero /\ pi_bob = Zero /\ pi_change = Zero
  /\ sum_outputs = Zero /\ inputs_match_outputs = FALSE
  /\ rp_input = FALSE /\ rp_bob = FALSE /\ rp_change = FALSE
  /\ verdict = "none"

InitTransfer ==
  /\ tpc = "idle"
  /\ t_value = Zero /\ t_made_for = Zero /\ t_shown_with = Zero
  /\ t_proof = Zero /\ t_accepted = FALSE

Init ==
  /\ overflow_checks \in BOOLEAN
  /\ pc = "step1"
  /\ \E tx \in Transactions :
       /\ value_input = tx.vi /\ r_input = tx.ri
       /\ value_to_bob = tx.vb /\ r_bob = tx.rb
       /\ value_change = tx.vc /\ r_change = tx.rc
  /\ InitRun
  /\ InitTransfer

\* pedersen_commit followed by toy_range_proof_create on its result
\* (main.rs:64-65, 82-85) panics in a build with overflow checks
ProvePanics(value, blinding) ==
  /\ overflow_checks
  /\ \/ CommitOverflows(value, blinding)
     \/ ProofOverflows(pedersen_commit(value, blinding), valid_bit(value))

\* main.rs:64-65
Step1 ==
  /\ pc = "step1"
  /\ IF ProvePanics(value_input, r_input)
     THEN /\ pc' = "panicked"
          /\ UNCHANGED prover
     ELSE /\ c_input' = pedersen_commit(value_input, r_input)
          /\ pi_input' = toy_range_proof_create(value_input, c_input')
          /\ pc' = "step2"
          /\ UNCHANGED <<c_bob, c_change, pi_bob, pi_change>>
  /\ UNCHANGED <<overflow_checks, secrets, verifier, transfer>>

\* main.rs:82-85
Step2 ==
  /\ pc = "step2"
  /\ IF ProvePanics(value_to_bob, r_bob) \/ ProvePanics(value_change, r_change)
     THEN /\ pc' = "panicked"
          /\ UNCHANGED prover
     ELSE /\ c_bob' = pedersen_commit(value_to_bob, r_bob)
          /\ c_change' = pedersen_commit(value_change, r_change)
          /\ pi_bob' = toy_range_proof_create(value_to_bob, c_bob')
          /\ pi_change' = toy_range_proof_create(value_change, c_change')
          /\ pc' = "step4"
          /\ UNCHANGED <<c_input, pi_input>>
  /\ UNCHANGED <<overflow_checks, secrets, verifier, transfer>>

\* ((c_bob + c_change) % MODULUS + MODULUS) % MODULUS  (main.rs:107)
aggregate(c1, c2) == Reduce(Wrap64(Add(c1, c2)))

verify_balance(input_commitment, c1, c2) == input_commitment = aggregate(c1, c2)

\* main.rs:107-108
Step4 ==
  /\ pc = "step4"
  /\ IF overflow_checks /\ ~Fits64(Add(c_bob, c_change))
     THEN /\ pc' = "panicked"
          /\ UNCHANGED <<sum_outputs, inputs_match_outputs>>
     ELSE /\ sum_outputs' = aggregate(c_bob, c_change)
          /\ inputs_match_outputs' = verify_balance(c_input, c_bob, c_change)
          /\ pc' = "step4b"
  /\ UNCHANGED <<overflow_checks, secrets, prover, rp_input, rp_bob, rp_change,
                 verdict, transfer>>

\* main.rs:128-130
Step4b ==
  /\ pc = "step4b"
  /\ IF /\ overflow_checks
        /\ \/ ProofOverflows(c_input, One)
           \/ ProofOverflows(c_bob, One)
           \/ ProofOverflows(c_change, One)
     THEN /\ pc' = "panicked"
          /\ UNCHANGED <<rp_input, rp_bob, rp_change>>
     ELSE /\ rp_input' = toy_range_proof_verify(c_input, pi_input)
          /\ rp_bob' = toy_range_proof_verify(c_bob, pi_bob)
          /\ rp_change' = toy_range_proof_verify(c_change, pi_change)
          /\ pc' = "final"
  /\ UNCHANGED <<overflow_checks, secrets, prover, sum_outputs,
                 inputs_match_outputs, verdict, transfer>>

\* if inputs_match_outputs { "Transaction verified ..." } else
\* { "Verification failed." }  (main.rs:228-232)
FinalMessage(balance) == IF balance THEN "verified" ELSE "failed"

Final ==
  /\ pc = "final"
  /\ verdict' = FinalMessage(inputs_match_outputs)
  /\ pc' = "done"
  /\ UNCHANGED <<overflow_checks, secrets, prover, sum_outputs,
                 inputs_match_outputs, rp_input, rp_bob, rp_change, transfer>>

Next == Step1 \/ Step2 \/ Step4 \/ Step4b \/ Final

Spec == Init /\ [][Next]_vars

(***************************************************************************)
(* A range proof made for one commitment and shown with another: the two   *)
(* functions of main.rs:35-44 applied to any value and any two commitments *)
(* of the field, from both of its ends.                                    *)
(***************************************************************************)
Commitments ==
  {FromInt(k) : k \in 0..MaxOffset} \cup {Sub(MaxScalar, FromInt(k)) : k \in 0..MaxOffset}

TransferInit ==
  /\ overflow_checks \in BOOLEAN
  /\ pc = "idle"
  /\ value_input = Zero /\ r_input = Zero /\ value_to_bob = Zero
  /\ r_bob = Zero /\ value_change = Zero /\ r_change = Zero
  /\ InitRun
  /\ tpc = "create"
  /\ t_value \in SmallValues \cup EdgeValues
  /\ t_made_for \in Commitments
  /\ t_shown_with \in Commitments
  /\ t_proof = Zero
  /\ t_accepted = FALSE

\* toy_range_proof_create(value, commitment)
Create ==
  /\ tpc = "create"
  /\ IF overflow_checks /\ ProofOverflows(t_made_for, valid_bit(t_value))
     THEN tpc' = "panicked" /\ UNCHANGED t_proof
     ELSE /\ t_proof' = toy_range_proof_create(t_value, t_made_for)
          /\ tpc' = "verify"
  /\ UNCHANGED <<overflow_checks, pc, secrets, prover, verifier,
                 t_value, t_made_for, t_shown_with, t_accepted>>

\* toy_range_proof_verify(commitment, proof)
Verify ==
  /\ tpc = "verify"
  /\ IF overflow_checks /\ ProofOverflows(t_shown_with, One)
     THEN tpc' = "panicked" /\ UNCHANGED t_accepted
     ELSE /\ t_accepted' = toy_range_proof_verify(t_shown_with, t_proof)
          /\ tpc' = "done"
  /\ UNCHANGED <<overflow_checks, pc, secrets, prover, verifier,
                 t_value, t_made_for, t_shown_with, t_proof>>

TransferNext == Create \/ Verify

SpecTransfer == TransferInit /\ [][TransferNext]_vars

(***************************************************************************)
(* Reference arithmetic of the properties: exact integers (no operand here *)
(* exceeds 2^70 in size, so 80 bits hold every sum and product).           *)
(***************************************************************************)
\* x mod MODULUS in [0, MODULUS), for any exact integer x
FlooredMod(x) ==
  IF IsNeg(x)
  THEN LET m == RemNat(Neg(x)) IN IF m = Zero THEN Zero ELSE Sub(MODULUS, m)
  ELSE RemNat(x)

\* (value * G + blinding * H) mod MODULUS over the integers
ExactCommit(value, blinding) ==
  FlooredMod(Add(MulSmall(value, G), MulSmall(blinding, H)))

InField(c) == ~IsNeg(c) /\ Less(c, MODULUS)

\* the run got past the step that assigns the named results
Committed == pc \in {"step4", "step4b", "final", "done"}
Balanced == pc \in {"step4b", "final", "done"}
Verified == pc \in {"final", "done"}

ValuesBalance == value_input = Add(value_to_bob, value_change)
BlindingsBalance == r_input = Add(r_bob, r_change)

(***************************************************************************)
(* Properties                                                              *)
(***************************************************************************)

\* C1: range proof binding.  Whenever the run has verified the proofs it
\* made from (value, commit(value, blinding)), each verification result is
\* TRUE exactly when the value is non-negative, FALSE exactly when it is
\* negative.
C1_RangeProofBinding ==
  Verified =>
    /\ rp_input = ~IsNeg(value_input)
    /\ rp_bob = ~IsNeg(value_to_bob)
    /\ rp_change = ~IsNeg(value_change)

C1_Witness ==
  /\ pc = "done"
  /\ IsNeg(value_change) /\ ~rp_change
  /\ ~IsNeg(value_to_bob) /\ rp_bob

\* C2: homomorphism.  The reduced sum of the two output commitments equals
\* the commitment pedersen_commit returns for the summed value and the
\* summed blinding (whenever these sums are i64 values and that call
\* returns).
C2_Homomorphism ==
  LET v == Add(value_to_bob, value_change)
      r == Add(r_bob, r_change)
  IN  (/\ Balanced
       /\ Fits64(v) /\ Fits64(r)
       /\ ~(overflow_checks /\ CommitOverflows(v, r)))
      => sum_outputs = pedersen_commit(v, r)

\* C3: the balance check accepts every transaction whose values and
\* blindings both balance.
C3_HonestBalanceAccepted ==
  (Balanced /\ ValuesBalance /\ BlindingsBalance) => inputs_match_outputs

\* C4: a transaction with balancing values and blindings and a negative
\* output passes the balance check, and the range proof of the negative
\* output is rejected.
C4_NegativeValueAttack ==
  (/\ Verified
   /\ ValuesBalance /\ BlindingsBalance
   /\ IsNeg(value_to_bob) \/ IsNeg(value_change))
  => /\ inputs_match_outputs
     /\ IsNeg(value_to_bob) => ~rp_bob
     /\ IsNeg(value_change) => ~rp_change

\* C5: non-transferability.  A proof made for one commitment of the field
\* is rejected when shown with a different commitment of the field.
C5_NonTransferable ==
  (tpc = "done" /\ t_made_for # t_shown_with) => ~t_accepted

C5_Witness ==
  /\ tpc = "done"
  /\ t_made_for = MaxScalar /\ t_shown_with = Sub(MaxScalar, One)
  /\ ~IsNeg(t_value)
  /\ ~t_accepted

\* C6: canonical range.  Every commitment the run has computed, and the
\* aggregate of the output commitments, lies in [0, MODULUS).
C6_CanonicalRange ==
  /\ pc # "step1" => InField(c_input)
  /\ Committed => InField(c_bob) /\ InField(c_change)
  /\ Balanced => InField(sum_outputs)

C6_Witness ==
  /\ Balanced
  /\ IsNeg(value_change) /\ IsNeg(CommitTerm(value_change, r_change))
  /\ c_change # Zero /\ sum_outputs # Zero

\* C7: with balancing values, the balance check rejects every transaction
\* whose blindings do not balance, unless H times the blinding difference
\* is a multiple of MODULUS.
C7_MismatchedBlindingRejected ==
  LET diff == Sub(r_input, Add(r_bob, r_change))
  IN  (/\ Balanced
       /\ ValuesBalance
       /\ diff # Zero
       /\ FlooredMod(MulSmall(diff, H)) # Zero)
      => ~inputs_match_outputs

\* C8: hiding.  Two distinct (value, blinding) pairs whose value*G +
\* blinding*H agree modulo MODULUS, and are computed without overflow, get
\* the same commitment; such pairs exist (C8_Witness).
C8_Hiding ==
  (/\ Committed
   /\ <<value_to_bob, r_bob>> # <<value_change, r_change>>
   /\ ~CommitOverflows(value_to_bob, r_bob)
   /\ ~CommitOverflows(value_change, r_change)
   /\ ExactCommit(value_to_bob, r_bob) = ExactCommit(value_change, r_change))
  => c_bob = c_change

C8_Witness ==
  /\ Committed
  /\ <<value_to_bob, r_bob>> # <<value_change, r_change>>
  /\ ~CommitOverflows(value_to_bob, r_bob)
  /\ ~CommitOverflows(value_change, r_change)
  /\ c_bob = c_change

C10_NoOverflowBeforeReduction ==
  (/\ pc # "step1"
   /\ InField(r_input)
   /\ Less(Neg(MODULUS), value_input) /\ Less(value_input, MODULUS))
  => /\ ~CommitOverflows(value_input, r_input)
     /\ c_input = ExactCommit(value_input, r_input)

====
